---- MODULE Spec2Model ----
(***************************************************************************)
(* The spatially explicit lizard IBM of src/main.py: HabitatPatch,         *)
(* HabitatGrid, Lizard (with its class-level registry Lizard.population)   *)
(* and the driver run_spatial_ibm.                                         *)
(*                                                                         *)
(* Reals are fixed-point integers, exact for the arithmetic the code does  *)
(* (floating-point rounding is not modelled):                              *)
(*   temperature  in 1/480 degC       (0.05/24 degC  = 1 unit per day_time)*)
(*   moisture     in 1/2400           (0.01/24       = 1 unit per day_time)*)
(*   lx, bx       in tenths                                                *)
(*   births, offspring_remainder in 1/240000 (tenths x penalty in 1/24000) *)
(* The shade of a patch is drawn at construction and never read; it is not *)
(* part of the state.                                                      *)
(***************************************************************************)
EXTENDS Integers, Sequences, FiniteSets, TLC

VARIABLES
    pc,            \* position of the driver (or "unit": rules called directly)
    num_steps, lx, bx, rows, cols,   \* arguments of run_spatial_ibm
    habitat,       \* the HabitatGrid: [rows, cols, grid]
    population,    \* Lizard.population, the registry (a sequence of lizards)
    step,          \* loop variable of the main time loop
    idx,           \* position of the list iterator of the rules loop (1-based)
    pop_sizes,     \* the trajectory being built
    next_id,       \* history: identity given to the next Lizard created
    n_seeded,      \* history: Lizards created by seeding in this call
    n_born,        \* history: Lizards created by reproduce in this call
    upd,           \* history: per patch, number of updates and last day_time
    culled,        \* history: ids removed from the registry by a cull
    grid_built,    \* history: HabitatGrid() has run in this call
    registry_reset, \* history: Lizard.population was rebound in this call
    calls,         \* history: rule calls made directly on a Lizard
    hist           \* history: the last direct call (its name, the Lizard before
                   \* it), the direct reproduce calls in order (actual_births
                   \* and the Lizards created), the number of the current
                   \* driver call and the first id it gives out

vars == <<pc, num_steps, lx, bx, rows, cols, habitat, population, step, idx,
          pop_sizes, next_id, n_seeded, n_born, upd, culled, grid_built,
          registry_reset, calls, hist>>

----------------------------------------------------------------------------
(* Bounds of the exploration *)

MaxSteps == 2      \* num_steps ranges over -1..MaxSteps
MaxSeed == 1       \* individuals seeded per age class: 1..MaxSeed (code: 5..15)
MaxPop == 5        \* registry sizes explored once Lizards are born
MaxCalls == 4      \* rule calls made directly on one Lizard
MaxRuns == 2       \* driver calls made one after the other

(* Fixed-point scales and program constants *)

TempUnit == 480
MoistUnit == 2400
One == 240000                 \* 1.0 offspring: tenths x 10 x MoistUnit
MoveTemp == 32 * TempUnit     \* 32.0
HeatTemp == 35 * TempUnit     \* 35.0
MaxAge == 15

(* Inputs explored by the driver specification *)

NumStepsSet == -1 .. MaxSteps
LxSet == { <<>>, <<10>>, <<10, 5>>, <<10, 10>>, <<5, 10>>, <<0, 5>> }
BxSet == { <<>>, <<0, 20>>, <<5, 15>>, <<20>> }
ShapeSet == { <<0, 1>>, <<1, 0>>, <<1, 1>>, <<1, 2>> }
\* a patch as HabitatGrid.__init__ can draw it: 25 +- 2 degC, 0.5 +- 0.1
PatchInit == { [temp |-> 25 * TempUnit, moisture |-> 1200],
               [temp |-> 27 * TempUnit, moisture |-> 960] }

----------------------------------------------------------------------------
(* HabitatPatch and HabitatGrid *)

Cells(rs, cs) == (0 .. rs - 1) \X (0 .. cs - 1)

update_conditions(p, day_time) ==
    LET t == p.temp + day_time
        m == p.moisture - day_time
    IN  [temp |-> IF t < 0 THEN 0 ELSE t,
         moisture |-> IF m < 0 THEN 0 ELSE m]

update_all_patches(h, day_time) ==
    [h EXCEPT !.grid = [c \in DOMAIN h.grid |->
                            update_conditions(h.grid[c], day_time)]]

NoHabitat == [rows |-> 0, cols |-> 0, grid |-> [c \in Cells(0, 0) |-> 0]]

----------------------------------------------------------------------------
(* Lizard *)

\* Lizard.__init__: the new object; the caller appends it to the registry
NewLizard(id, age, row, col, born) ==
    [id |-> id, age |-> age, row |-> row, col |-> col, state |-> "alive",
     offspring_remainder |-> 0, born |-> born, ops |-> <<>>]

Offsets == << <<-1, -1>>, <<-1, 0>>, <<-1, 1>>,
              << 0, -1>>, << 0, 0>>, << 0, 1>>,
              << 1, -1>>, << 1, 0>>, << 1, 1>> >>

\* the in-bounds 3x3 neighbours without the centre, in scan order
Neighbors(liz, h) ==
    LET cand == [i \in 1 .. 9 |->
                    <<liz.row + Offsets[i][1], liz.col + Offsets[i][2]>>]
        ok(p) == /\ 0 <= p[1] /\ p[1] < h.rows
                 /\ 0 <= p[2] /\ p[2] < h.cols
                 /\ ~(p[1] = liz.row /\ p[2] = liz.col)
    IN  SelectSeq(cand, ok)

\* a scan that also takes a neighbour no cooler than the best so far
RECURSIVE Coolest_or_equal(_, _, _, _)
Coolest_or_equal(ns, h, best_temp, best_loc) ==
    IF ns = <<>> THEN best_loc
    ELSE LET patch_temp == h.grid[Head(ns)].temp
         IN  IF patch_temp <= best_temp
             THEN Coolest_or_equal(Tail(ns), h, patch_temp, Head(ns))
             ELSE Coolest_or_equal(Tail(ns), h, best_temp, best_loc)

\* lines 112-119: the scan keeps the first neighbour strictly cooler than
\* every patch seen before it, starting from the current patch
RECURSIVE Coolest(_, _, _, _)
Coolest(ns, h, best_temp, best_loc) ==
    IF ns = <<>> THEN best_loc
    ELSE LET patch_temp == h.grid[Head(ns)].temp
         IN  IF patch_temp < best_temp
             THEN Coolest(Tail(ns), h, patch_temp, Head(ns))
             ELSE Coolest(Tail(ns), h, best_temp, best_loc)

move(liz, h) ==
    IF liz.state # "alive" THEN liz
    ELSE LET here == <<liz.row, liz.col>>
             current_temp == h.grid[here].temp
         IN  IF current_temp <= MoveTemp THEN liz
             ELSE LET best_loc == Coolest(Neighbors(liz, h), h,
                                          current_temp, here)
                  IN  [liz EXCEPT !.row = best_loc[1], !.col = best_loc[2]]

\* penalty = 1.0 - max(0.0, 1.0 - moisture) * 0.3, in 1/24000
Penalty(moisture) ==
    LET dryness == IF MoistUnit - moisture > 0 THEN MoistUnit - moisture ELSE 0
    IN  10 * MoistUnit - 3 * dryness

\* actual_births, in 1/240000
ActualBirths(liz, b, h) ==
    LET base_offspring == IF liz.age < Len(b) THEN b[liz.age + 1] ELSE 0
    IN  base_offspring * Penalty(h.grid[<<liz.row, liz.col>>].moisture)

\* a reproduce that adds the extra Lizard and keeps the whole remainder
reproduce_no_subtract(liz, b, h) ==
    IF liz.state # "alive" THEN [liz |-> liz, offspring_int |-> 0]
    ELSE LET actual_births == ActualBirths(liz, b, h)
             rem == liz.offspring_remainder + (actual_births % One)
             whole == actual_births \div One
         IN  [liz |-> [liz EXCEPT !.offspring_remainder = rem],
              offspring_int |-> IF rem >= One THEN whole + 1 ELSE whole]

\* a reproduce that drops the fraction instead of carrying it over
reproduce_no_carry(liz, b, h) ==
    IF liz.state # "alive" THEN [liz |-> liz, offspring_int |-> 0]
    ELSE [liz |-> liz, offspring_int |-> ActualBirths(liz, b, h) \div One]

\* reproduce: the parent afterwards and the number of Lizards it creates
reproduce(liz, b, h) ==
    IF liz.state # "alive" THEN [liz |-> liz, offspring_int |-> 0]
    ELSE LET actual_births == ActualBirths(liz, b, h)
             rem == liz.offspring_remainder + (actual_births % One)
             whole == actual_births \div One
         IN  IF rem >= One
             THEN [liz |-> [liz EXCEPT !.offspring_remainder = rem - One],
                   offspring_int |-> whole + 1]
             ELSE [liz |-> [liz EXCEPT !.offspring_remainder = rem],
                   offspring_int |-> whole]

\* survival divides by lx[age - 1]: ZeroDivisionError when that entry is 0
survival_raises(liz, l) ==
    /\ liz.age # 0
    /\ liz.age < Len(l)
    /\ l[liz.age] = 0

\* the truth values `np.random.uniform(0, 1) < num/den` can take (den > 0)
uniform_lt(num, den) ==
    {b \in BOOLEAN : (b => num > 0) /\ (~b => num < den)}

\* the outcomes of the dice roll survival makes for liz (one when none is made)
Rolls(liz, l, h) ==
    IF liz.age = 0 \/ liz.age >= Len(l) \/ l[liz.age] = 0 THEN {TRUE}
    ELSE LET hot == h.grid[<<liz.row, liz.col>>].temp > HeatTemp
         IN  uniform_lt(l[liz.age + 1] * (IF hot THEN 8 ELSE 10),
                        l[liz.age] * 10)

\* a survival that tests the table's length before age 0
survival_length_first(liz, l, h, roll) ==
    IF liz.age >= Len(l) THEN [liz EXCEPT !.state = "dead"]
    ELSE IF liz.age = 0 THEN [liz EXCEPT !.state = "alive"]
    ELSE [liz EXCEPT !.state = IF roll THEN "alive" ELSE "dead"]

\* a survival that lets age = len(lx) through
survival_gt(liz, l, h, roll) ==
    IF liz.age = 0 THEN [liz EXCEPT !.state = "alive"]
    ELSE IF liz.age > Len(l) THEN [liz EXCEPT !.state = "dead"]
    ELSE [liz EXCEPT !.state = IF roll THEN "alive" ELSE "dead"]

survival(liz, l, h, roll) ==
    IF liz.age = 0 THEN [liz EXCEPT !.state = "alive"]
    ELSE IF liz.age >= Len(l) THEN [liz EXCEPT !.state = "dead"]
    ELSE [liz EXCEPT !.state = IF roll THEN "alive" ELSE "dead"]

\* an age_up whose cutoff comes one year late
age_up_late_cutoff(liz) ==
    LET a == liz.age + 1
    IN  [liz EXCEPT !.age = a,
                    !.state = IF a > MaxAge + 1 THEN "dead" ELSE @]

\* an age_up whose cutoff comes one year early
age_up_early_cutoff(liz) ==
    LET a == liz.age + 1
    IN  [liz EXCEPT !.age = a,
                    !.state = IF a >= MaxAge THEN "dead" ELSE @]

\* an age_up that forgets the increment
age_up_no_increment(liz) ==
    [liz EXCEPT !.state = IF liz.age > MaxAge THEN "dead" ELSE @]

age_up(liz) ==
    LET a == liz.age + 1
    IN  [liz EXCEPT !.age = a,
                    !.state = IF a > MaxAge THEN "dead" ELSE @]

----------------------------------------------------------------------------
(* run_spatial_ibm *)

Op(liz, name) == [liz EXCEPT !.ops = Append(@, name)]

\* the history before any direct call: `liz` is the Lizard the calls go to
NoCalls(liz, first) ==
    [last |-> "none", before |-> liz, reproduced |-> <<>>,
     first_id |-> first, run |-> 1]

Init ==
    /\ pc = "call"
    /\ num_steps \in NumStepsSet
    /\ lx \in LxSet
    /\ bx \in BxSet
    /\ \E s \in ShapeSet : rows = s[1] /\ cols = s[2]
    /\ habitat = NoHabitat
    /\ population = <<>>
    /\ step = 0
    /\ idx = 0
    /\ pop_sizes = <<>>
    /\ next_id = 1
    /\ n_seeded = 0
    /\ n_born = 0
    /\ upd = [c \in Cells(0, 0) |-> 0]
    /\ culled = {}
    /\ grid_built = FALSE
    /\ registry_reset = FALSE
    /\ calls = 0
    /\ hist = NoCalls(NewLizard(0, 0, 0, 0, -1), 1)

\* the most seeds of one age class: MaxSeed, and 1 when lx has so many age
\* classes that MaxSeed of each would not fit the registry bound
SeedMax == IF Len(lx) * MaxSeed <= MaxPop THEN MaxSeed ELSE 1

\* a seeding that draws rows and columns with randint(0, rows), randint(0, cols)
ClassSeeds_inclusive(age_class) ==
    UNION { { [i \in 1 .. n |-> [age |-> age_class, cell |-> f[i]]] :
                f \in [1 .. n -> Cells(rows + 1, cols + 1)] } :
            n \in 1 .. SeedMax }

\* the seeds of one age class: 1..SeedMax individuals, each at a random cell
ClassSeeds(age_class) ==
    UNION { { [i \in 1 .. n |-> [age |-> age_class, cell |-> f[i]]] :
                f \in [1 .. n -> Cells(rows, cols)] } : n \in 1 .. SeedMax }

\* the seeds of age classes age_class .. len(lx) - 1, in creation order
RECURSIVE Seedings(_)
Seedings(age_class) ==
    IF age_class >= Len(lx) THEN { <<>> }
    ELSE { s \o t : s \in ClassSeeds(age_class), t \in Seedings(age_class + 1) }

\* a loop that runs once too often: `range(num_steps + 1)`
LoopHead_one_more(s) == IF s <= num_steps THEN "update" ELSE "Completed"

\* `for step in range(num_steps)`: the next position of the driver
LoopHead(s) == IF s < num_steps THEN "update" ELSE "Completed"

\* a rules loop that stops one short of the registry's end
IterHead_one_short(i, pop) == IF i < Len(pop) THEN "move" ELSE "age_up"

\* `for liz in Lizard.population`: the list iterator reads the list's current
\* length each time it advances
IterHead(i, pop) == IF i <= Len(pop) THEN "move" ELSE "age_up"

\* line 203: habitat = HabitatGrid(rows=rows, cols=cols)
BuildHabitat ==
    /\ pc = "call"
    /\ \E g \in [Cells(rows, cols) -> PatchInit] :
          habitat' = [rows |-> rows, cols |-> cols, grid |-> g]
    /\ upd' = [c \in Cells(rows, cols) |-> [count |-> 0, day |-> -1]]
    /\ grid_built' = TRUE
    /\ pc' = "reset"
    /\ UNCHANGED <<calls, hist, num_steps, lx, bx, rows, cols, population, step, idx,
                   pop_sizes, next_id, n_seeded, n_born, culled,
                   registry_reset>>

\* a driver that leaves the registry as the last call left it
ResetRegistry_keeps ==
    /\ pc = "reset"
    /\ registry_reset' = TRUE
    /\ pc' = "seed"
    /\ UNCHANGED <<calls, hist, num_steps, lx, bx, rows, cols, habitat, step, idx,
                   pop_sizes, next_id, n_seeded, n_born, upd, culled,
                   grid_built, population>>

\* line 206: Lizard.population = []
ResetRegistry ==
    /\ pc = "reset"
    /\ population' = <<>>
    /\ registry_reset' = TRUE
    /\ pc' = "seed"
    /\ UNCHANGED <<calls, hist, num_steps, lx, bx, rows, cols, habitat, step, idx,
                   pop_sizes, next_id, n_seeded, n_born, upd, culled,
                   grid_built>>

\* lines 211-217: rd.randint(0, rows - 1) and rd.randint(0, cols - 1) raise
\* ValueError on an empty range, before the first Lizard is created
SeedRaises == Len(lx) > 0 /\ (rows - 1 < 0 \/ cols - 1 < 0)

\* lines 211-220: the seeding loops, then pop_sizes = []
Seed ==
    /\ pc = "seed"
    /\ IF SeedRaises
       THEN /\ pc' = "ValueError"
            /\ UNCHANGED <<population, next_id, n_seeded, pop_sizes, step>>
       ELSE \E plan \in Seedings(0) :
            /\ population' = population \o
                  [i \in 1 .. Len(plan) |->
                      NewLizard(next_id + i - 1, plan[i].age,
                                plan[i].cell[1], plan[i].cell[2], -1)]
            /\ next_id' = next_id + Len(plan)
            /\ n_seeded' = n_seeded + Len(plan)
            /\ pop_sizes' = <<>>
            /\ step' = 0
            /\ pc' = LoopHead(0)
    /\ UNCHANGED <<calls, hist, num_steps, lx, bx, rows, cols, habitat, idx, n_born, upd,
                   culled, grid_built, registry_reset>>

\* line 223: habitat.update_all_patches(day_time=step); then the rules loop
\* starts at the head of the registry
UpdateAllPatches ==
    /\ pc = "update"
    /\ habitat' = update_all_patches(habitat, step)
    /\ upd' = [c \in DOMAIN upd |->
                  [count |-> upd[c].count + 1, day |-> step]]
    /\ population' = [i \in DOMAIN population |->
                         [population[i] EXCEPT !.ops = <<>>]]
    /\ idx' = 1
    /\ pc' = IterHead(1, population)
    /\ UNCHANGED <<calls, hist, num_steps, lx, bx, rows, cols, step, pop_sizes, next_id,
                   n_seeded, n_born, culled, grid_built, registry_reset>>

\* line 227: liz.move(habitat)
Move ==
    /\ pc = "move"
    /\ population' = [population EXCEPT
                         ![idx] = Op(move(@, habitat), "move")]
    /\ pc' = "reproduce"
    /\ UNCHANGED <<calls, hist, num_steps, lx, bx, rows, cols, habitat, step, idx,
                   pop_sizes, next_id, n_seeded, n_born, upd, culled,
                   grid_built, registry_reset>>

\* line 228: liz.reproduce(bx, habitat); lines 151-152 and 87 append each
\* newborn to Lizard.population, the list being iterated
Reproduce ==
    /\ pc = "reproduce"
    /\ LET r == reproduce(population[idx], bx, habitat)
           parent == r.liz
       IN  /\ r.offspring_int = 0 \/ Len(population) + r.offspring_int <= MaxPop
           /\ population' =
                 [population EXCEPT ![idx] = Op(parent, "reproduce")] \o
                 [i \in 1 .. r.offspring_int |->
                     NewLizard(next_id + i - 1, 0, parent.row, parent.col,
                               step)]
           /\ next_id' = next_id + r.offspring_int
           /\ n_born' = n_born + r.offspring_int
    /\ pc' = "survival"
    /\ UNCHANGED <<calls, hist, num_steps, lx, bx, rows, cols, habitat, step, idx,
                   pop_sizes, n_seeded, upd, culled, grid_built,
                   registry_reset>>

\* line 229: liz.survival(lx, habitat); then the iterator advances
Survival ==
    /\ pc = "survival"
    /\ IF survival_raises(population[idx], lx)
       THEN /\ pc' = "ZeroDivisionError"
            /\ UNCHANGED <<population, idx>>
       ELSE \E roll \in Rolls(population[idx], lx, habitat) :
            /\ population' = [population EXCEPT
                  ![idx] = Op(survival(@, lx, habitat, roll), "survival")]
            /\ idx' = idx + 1
            /\ pc' = IterHead(idx + 1, population)
    /\ UNCHANGED <<calls, hist, num_steps, lx, bx, rows, cols, habitat, step, pop_sizes,
                   next_id, n_seeded, n_born, upd, culled, grid_built,
                   registry_reset>>

\* lines 232-233: for liz in Lizard.population: liz.age_up()
AgeUp ==
    /\ pc = "age_up"
    /\ population' = [i \in DOMAIN population |->
                         Op(age_up(population[i]), "age_up")]
    /\ pc' = "cull"
    /\ UNCHANGED <<calls, hist, num_steps, lx, bx, rows, cols, habitat, step, idx,
                   pop_sizes, next_id, n_seeded, n_born, upd, culled,
                   grid_built, registry_reset>>

IsAlive(lz) == lz.state = "alive"

\* a cull that filters nothing
cull_keep_all(pop) == pop

\* a cull that extends the registry with the alive instead of replacing it
cull_extend(pop) == pop \o SelectSeq(pop, IsAlive)

\* line 236: the list comprehension that keeps the alive
cull(pop) == SelectSeq(pop, IsAlive)

Cull ==
    /\ pc = "cull"
    /\ population' = cull(population)
    /\ culled' = culled \cup
          { population[i].id : i \in { j \in DOMAIN population :
                                          ~IsAlive(population[j]) } }
    /\ pc' = "census"
    /\ UNCHANGED <<calls, hist, num_steps, lx, bx, rows, cols, habitat, step, idx,
                   pop_sizes, next_id, n_seeded, n_born, upd, grid_built,
                   registry_reset>>

\* line 239: pop_sizes.append(len(Lizard.population)); next iteration
Census ==
    /\ pc = "census"
    /\ pop_sizes' = Append(pop_sizes, Len(population))
    /\ step' = step + 1
    /\ pc' = LoopHead(step + 1)
    /\ UNCHANGED <<calls, hist, num_steps, lx, bx, rows, cols, habitat, population, idx,
                   next_id, n_seeded, n_born, upd, culled, grid_built,
                   registry_reset>>

Next ==
    \/ BuildHabitat
    \/ ResetRegistry
    \/ Seed
    \/ UpdateAllPatches
    \/ Move
    \/ Reproduce
    \/ Survival
    \/ AgeUp
    \/ Cull
    \/ Census

Spec == Init /\ [][Next]_vars

----------------------------------------------------------------------------
(* The rules called directly: one Lizard as its constructor leaves it,       *)
(* population[1], on a habitat whose patches were set by the caller,         *)
(* receives move, reproduce, survival and age_up calls in any order.         *)

Deg(t) == t * TempUnit

\* 2 x 2 habitats: temperatures by cell, one moisture for all patches
UnitTemps ==
    { [c \in Cells(2, 2) |-> Deg(30)],
      [c \in Cells(2, 2) |-> Deg(40)],
      [c \in Cells(2, 2) |->
          CASE c = <<0, 0>> -> Deg(40) [] c = <<0, 1>> -> Deg(41)
            [] c = <<1, 0>> -> Deg(35) [] OTHER -> Deg(40)],
      [c \in Cells(2, 2) |->
          CASE c = <<0, 0>> -> Deg(33) [] c = <<0, 1>> -> Deg(31)
            [] c = <<1, 0>> -> Deg(31) [] OTHER -> Deg(32)] }
\* a 1 x 3 habitat whose coolest patch is no neighbour of <<0, 0>>
RowTemps ==
    { [c \in Cells(1, 3) |->
          CASE c = <<0, 0>> -> Deg(40) [] c = <<0, 1>> -> Deg(38)
            [] OTHER -> Deg(30)] }
UnitMoistures == { 0, 1200, MoistUnit, 3600 }
UnitHabitats ==
    { [rows |-> 2, cols |-> 2,
       grid |-> [c \in Cells(2, 2) |-> [temp |-> t[c], moisture |-> m]]] :
      t \in UnitTemps, m \in UnitMoistures }
    \cup
    { [rows |-> 1, cols |-> 3,
       grid |-> [c \in Cells(1, 3) |-> [temp |-> t[c], moisture |-> m]]] :
      t \in RowTemps, m \in UnitMoistures }
UnitLx == { <<>>, <<10>>, <<10, 5>>, <<5, 10, 0, 5>> }
UnitBx == { <<>>, <<3>>, <<20, 15>> }
UnitAges == {0, 1, 2, MaxAge - 1, MaxAge}
\* the Lizards constructed on habitat h: at its first or its last patch
UnitLizards(h) ==
    { NewLizard(1, a, c[1], c[2], -1) :
      a \in UnitAges, c \in {<<0, 0>>, <<h.rows - 1, h.cols - 1>>} }

InitUnit ==
    /\ pc = "unit"
    /\ num_steps = 0
    /\ lx \in UnitLx
    /\ bx \in UnitBx
    /\ habitat \in UnitHabitats
    /\ rows = habitat.rows
    /\ cols = habitat.cols
    /\ population \in { <<liz>> : liz \in UnitLizards(habitat) }
    /\ step = 0
    /\ idx = 1
    /\ pop_sizes = <<>>
    /\ next_id = 2
    /\ n_seeded = 1
    /\ n_born = 0
    /\ upd = [c \in DOMAIN habitat.grid |-> [count |-> 0, day |-> -1]]
    /\ culled = {}
    /\ grid_built = TRUE
    /\ registry_reset = TRUE
    /\ calls = 0
    /\ hist = NoCalls(population[1], 1)

\* the history after the direct call `name` on population[1]
Called(name) == [hist EXCEPT !.last = name, !.before = population[1]]

\* liz.move(habitat)
CallMove ==
    /\ pc = "unit" /\ calls < MaxCalls
    /\ population' = [population EXCEPT ![1] = move(@, habitat)]
    /\ calls' = calls + 1
    /\ hist' = Called("move")
    /\ UNCHANGED <<pc, num_steps, lx, bx, rows, cols, habitat, step, idx,
                   pop_sizes, next_id, n_seeded, n_born, upd, culled,
                   grid_built, registry_reset>>

\* liz.reproduce(bx, habitat); a newborn is tagged with the call that made it
CallReproduce ==
    /\ pc = "unit" /\ calls < MaxCalls
    /\ LET r == reproduce(population[1], bx, habitat)
           parent == r.liz
       IN  /\ Len(population) + r.offspring_int <= MaxPop
           /\ population' =
                 [population EXCEPT ![1] = parent] \o
                 [i \in 1 .. r.offspring_int |->
                     NewLizard(next_id + i - 1, 0, parent.row, parent.col,
                               calls)]
           /\ next_id' = next_id + r.offspring_int
           /\ n_born' = n_born + r.offspring_int
    /\ calls' = calls + 1
    /\ hist' = [Called("reproduce") EXCEPT !.reproduced = Append(@,
                  [alive |-> population[1].state = "alive",
                   actual |-> IF population[1].state = "alive"
                              THEN ActualBirths(population[1], bx, habitat)
                              ELSE 0,
                   created |-> reproduce(population[1], bx,
                                         habitat).offspring_int])]
    /\ UNCHANGED <<pc, num_steps, lx, bx, rows, cols, habitat, step, idx,
                   pop_sizes, n_seeded, upd, culled, grid_built,
                   registry_reset>>

\* liz.survival(lx, habitat)
CallSurvival ==
    /\ pc = "unit" /\ calls < MaxCalls
    /\ IF survival_raises(population[1], lx)
       THEN /\ pc' = "ZeroDivisionError"
            /\ UNCHANGED population
       ELSE \E roll \in Rolls(population[1], lx, habitat) :
            /\ population' = [population EXCEPT
                  ![1] = survival(@, lx, habitat, roll)]
            /\ pc' = pc
    /\ calls' = calls + 1
    /\ hist' = Called("survival")
    /\ UNCHANGED <<num_steps, lx, bx, rows, cols, habitat, step, idx,
                   pop_sizes, next_id, n_seeded, n_born, upd, culled,
                   grid_built, registry_reset>>

\* liz.age_up()
CallAgeUp ==
    /\ pc = "unit" /\ calls < MaxCalls
    /\ population' = [population EXCEPT ![1] = age_up(@)]
    /\ calls' = calls + 1
    /\ hist' = Called("age_up")
    /\ UNCHANGED <<pc, num_steps, lx, bx, rows, cols, habitat, step, idx,
                   pop_sizes, next_id, n_seeded, n_born, upd, culled,
                   grid_built, registry_reset>>

NextUnit ==
    \/ CallMove
    \/ CallReproduce
    \/ CallSurvival
    \/ CallAgeUp

SpecUnit == InitUnit /\ [][NextUnit]_vars

----------------------------------------------------------------------------
(* Driver calls on chosen arguments *)

\* the state at a call of run_spatial_ibm, but for its arguments
NotStarted ==
    /\ pc = "call"
    /\ habitat = NoHabitat
    /\ population = <<>>
    /\ step = 0
    /\ idx = 0
    /\ pop_sizes = <<>>
    /\ next_id = 1
    /\ n_seeded = 0
    /\ n_born = 0
    /\ upd = [c \in Cells(0, 0) |-> 0]
    /\ culled = {}
    /\ grid_built = FALSE
    /\ registry_reset = FALSE
    /\ calls = 0
    /\ hist = NoCalls(NewLizard(0, 0, 0, 0, -1), 1)

\* lx = [1.0, 1.0], a bx of zeros, two more steps than Spec runs
DeclineLx == <<10, 10>>
ZeroBx == { <<>>, <<0>>, <<0, 0>> }
InitDecline ==
    /\ NotStarted
    /\ num_steps \in 0 .. MaxSteps + 2
    /\ lx = DeclineLx
    /\ bx \in ZeroBx
    /\ \E s \in { <<1, 1>>, <<1, 2>> } : rows = s[1] /\ cols = s[2]

SpecDecline == InitDecline /\ [][Next]_vars

\* run_spatial_ibm called again after a call has ended (returned or raised):
\* Lizard.population is a class attribute (line 72) and is still what the
\* last call left; the locals are new
RunSteps == 0 .. 1
RunLx == { <<>>, <<10>>, <<10, 5>> }
RunBx == { <<>>, <<0, 20>> }
RunShapes == { <<0, 1>>, <<1, 1>> }
InitRuns ==
    /\ NotStarted
    /\ num_steps \in RunSteps
    /\ lx \in RunLx
    /\ bx \in RunBx
    /\ \E s \in RunShapes : rows = s[1] /\ cols = s[2]

CallAgain ==
    /\ pc \in {"Completed", "ValueError", "ZeroDivisionError"}
    /\ hist.run < MaxRuns
    /\ pc' = "call"
    /\ num_steps' \in RunSteps
    /\ lx' \in RunLx
    /\ bx' \in RunBx
    /\ \E s \in RunShapes : rows' = s[1] /\ cols' = s[2]
    /\ habitat' = NoHabitat
    /\ upd' = [c \in Cells(0, 0) |-> 0]
    /\ step' = 0
    /\ idx' = 0
    /\ pop_sizes' = <<>>
    /\ n_seeded' = 0
    /\ n_born' = 0
    /\ grid_built' = FALSE
    /\ registry_reset' = FALSE
    /\ hist' = [hist EXCEPT !.first_id = next_id, !.run = @ + 1]
    /\ UNCHANGED <<population, next_id, culled, calls>>

NextRuns ==
    \/ Next
    \/ CallAgain

SpecRuns == InitRuns /\ [][NextRuns]_vars

\* lx with as many age classes as the age cutoff allows and more (every
\* entry 1.0), and a short table; no births
OldLx == { [a \in 1 .. n |-> 10] : n \in MaxAge .. MaxAge + 2 } \cup { <<10, 5>> }
InitOld ==
    /\ NotStarted
    /\ num_steps \in 0 .. MaxSteps
    /\ lx \in OldLx
    /\ bx = <<>>
    /\ rows = 1 /\ cols = 1

SpecOld == InitOld /\ [][Next]_vars

\* the driver, or the rules called directly
InitAll == Init \/ InitUnit
NextAll ==
    \/ Next
    \/ NextUnit
SpecAll == InitAll /\ [][NextAll]_vars

\* the main loop of run_spatial_ibm is a plain sequential loop: whenever a
\* statement can run, it runs
FairSpec == Spec /\ WF_vars(Next)

----------------------------------------------------------------------------
(* Vocabulary of the properties *)

Stepping == {"update", "move", "reproduce", "survival", "age_up", "cull",
             "census"}
InRules == {"move", "reproduce", "survival"}
Errors == {"ValueError", "ZeroDivisionError"}
Terminal == {"Completed"} \cup Errors

\* the configurations the interface accepts / rejects
ValidConfig == num_steps >= 0 /\ Len(lx) > 0 /\ rows >= 1 /\ cols >= 1
InvalidConfig == rows <= 0 \/ cols <= 0 \/ Len(lx) = 0 \/ num_steps < 0
NoZeroLx == \A a \in DOMAIN lx : lx[a] > 0

Registry == DOMAIN population
BornThisStep(i) == pc \in Stepping /\ population[i].born = step
RulesOrder == <<"move", "reproduce", "survival">>
StepOrder == <<"move", "reproduce", "survival", "age_up">>
IsPrefix(s, t) == Len(s) <= Len(t) /\ \A k \in 1 .. Len(s) : s[k] = t[k]

----------------------------------------------------------------------------
\* C1: in every step, an individual created by reproduce during that step is
\* not moved, does not reproduce and is not put through survival within it.
C1_NewbornsDoNotAct ==
    \A i \in Registry :
        BornThisStep(i) =>
            \A k \in DOMAIN population[i].ops :
                population[i].ops[k] \notin {"move", "reproduce", "survival"}

\* C2: an individual born during step t is not aged in step t: it has age 0
\* (and is in the registry) when the census of step t is recorded.
C2_NewbornsNotAged ==
    pc = "census" =>
        \A i \in Registry : BornThisStep(i) => population[i].age = 0

PassDiverges ==
    /\ pc = "reproduce"
    /\ population[idx].born = step
    /\ population[idx].age = 0
    /\ population[idx].offspring_remainder = 0
    /\ reproduce(population[idx], bx, habitat).offspring_int >= 1
BoundStopsOnlyDivergingPass ==
    (pc \notin Terminal /\ ~ENABLED Next) => PassDiverges

\* C4: the driver returns a trajectory with exactly num_steps entries, one
\* appended per step in step order (none when num_steps = 0).
C4_TrajectoryLength ==
    /\ pc \in Stepping \cup {"Completed"} => Len(pop_sizes) = step
    /\ (pc = "Completed" /\ num_steps >= 0) => Len(pop_sizes) = num_steps
C4_Witness ==
    /\ pc = "Completed" /\ num_steps = MaxSteps /\ Len(pop_sizes) = MaxSteps
    /\ n_born > 0

\* C5: a call with an invalid configuration never steps, and ends in an
\* error with no grid built, the registry untouched and no individual
\* created; it returns no trajectory.
C5_FailFast ==
    InvalidConfig =>
        /\ pc \notin Stepping
        /\ pc \in Terminal =>
              /\ pc \in Errors
              /\ ~grid_built /\ ~registry_reset /\ n_seeded = 0

\* C6: no error is raised once stepping has started: a run that ends in an
\* error has updated no patch and applied no rule.
C6_NoErrorWhileStepping ==
    pc \in Errors =>
        /\ \A c \in DOMAIN upd : upd[c].count = 0
        /\ \A i \in Registry : population[i].ops = <<>>

\* C7: every recorded population size is between 0 and the number of
\* individuals seeded plus the number created by reproduce so far.
C7_PopulationBound ==
    /\ (pc \in {"update", "Completed"} /\ Len(pop_sizes) > 0) =>
          /\ 0 <= pop_sizes[Len(pop_sizes)]
          /\ pop_sizes[Len(pop_sizes)] <= n_seeded + n_born
    /\ pc = "census" => Len(population) <= n_seeded + n_born
C7_Witness ==
    /\ pc = "update" /\ Len(pop_sizes) > 0 /\ n_born > 0 /\ culled # {}
    /\ pop_sizes[Len(pop_sizes)] > 0

\* C8: after the cull of a step the registry holds only alive individuals
\* (at the census and at the start of the next step), and an individual the
\* cull removed is never in the registry again.
C8_NoDeadAfterCull ==
    /\ pc \in {"census", "Completed"} \/ (pc = "update" /\ step > 0) =>
          \A i \in Registry : IsAlive(population[i])
    /\ \A i \in Registry : population[i].id \notin culled
C8_Witness ==
    /\ pc = "census" /\ culled # {} /\ population # <<>>
    /\ \E i \in Registry : population[i].age = 1

\* C10: within a step every patch is updated exactly once, with
\* day_time = step, before any rule runs; each individual gets move, then
\* reproduce, then survival; age_up comes after every survival; the cull
\* comes after every age_up; the census records the registry as the cull
\* left it.
C10_StepOrder ==
    /\ \A c \in DOMAIN upd :
          /\ pc = "update" => upd[c].count = step
          /\ pc \in Stepping \ {"update"} =>
                upd[c].count = step + 1 /\ upd[c].day = step
          /\ pc = "Completed" => upd[c].count = step
    /\ pc \in InRules =>
          \A i \in Registry :
              /\ i < idx => population[i].ops = RulesOrder
              /\ i > idx => population[i].ops = <<>>
              /\ i = idx => population[i].ops =
                    (CASE pc = "move" -> <<>>
                       [] pc = "reproduce" -> <<"move">>
                       [] pc = "survival" -> <<"move", "reproduce">>)
    /\ pc = "age_up" => \A i \in Registry : population[i].ops = RulesOrder
    /\ pc \in {"cull", "census"} =>
          \A i \in Registry : population[i].ops = StepOrder
    /\ (pc \in {"update", "Completed"} /\ step > 0) =>
          pop_sizes[step] = Len(population)
C10_Witness ==
    /\ pc = "census" /\ step = 1 /\ Len(population) >= 2
    /\ Cardinality(DOMAIN upd) = 2
    /\ \A c \in DOMAIN upd : upd[c].count = 2 /\ upd[c].day = 1

\* what a rule may change of a Lizard
Fields(liz) == <<liz.age, liz.row, liz.col, liz.state, liz.offspring_remainder>>

\* C9: on an individual that is not alive, move, reproduce and survival
\* change nothing of it (age, row, col, state, offspring_remainder) and
\* create no individual.
C9_DeadRulesAreNoOps ==
    [][ (~IsAlive(population[1]) /\ (CallMove \/ CallReproduce \/ CallSurvival))
        => /\ Fields(population'[1]) = Fields(population[1])
           /\ Len(population') = Len(population) ]_vars

----------------------------------------------------------------------------
(* The rules called directly: what the last call did to population[1] *)

Temp(c) == habitat.grid[c].temp
Moore(c) ==
    { d \in Cells(rows, cols) :
        /\ d # c
        /\ d[1] - c[1] \in -1 .. 1
        /\ d[2] - c[2] \in -1 .. 1 }
Before == hist.before
After == population[1]
Place(liz) == <<liz.row, liz.col>>
Did(name) == pc = "unit" /\ hist.last = name

\* C11: move on an alive individual: on a patch at 32.0 or below the
\* coordinates do not change, whatever the neighbours are; on a hotter patch
\* with an in-bounds Moore neighbour strictly cooler than it, the individual
\* ends on a neighbour of minimum temperature over all in-bounds Moore
\* neighbours; with no strictly cooler neighbour it stays.
C11_MoveToCoolest ==
    (Did("move") /\ IsAlive(Before)) =>
        LET from == Place(Before)
            to == Place(After)
            cooler == { d \in Moore(from) : Temp(d) < Temp(from) }
        IN  /\ Temp(from) <= MoveTemp => to = from
            /\ (Temp(from) > MoveTemp /\ cooler # {}) =>
                  /\ to \in Moore(from)
                  /\ \A d \in Moore(from) : Temp(to) <= Temp(d)
            /\ (Temp(from) > MoveTemp /\ cooler = {}) => to = from
            /\ Fields(After) = Fields([Before EXCEPT !.row = to[1],
                                                     !.col = to[2]])
C11_Witness ==
    /\ Did("move") /\ IsAlive(Before)
    /\ Place(Before) = <<0, 0>> /\ Temp(<<0, 0>>) = Deg(40)
    /\ Place(After) = <<1, 0>> /\ Temp(<<1, 0>>) = Deg(35)
    /\ \A d \in Moore(<<0, 0>>) \ {<<1, 0>>} : Temp(d) >= Deg(40)

\* the reproduce calls made so far, and the sum of their actual_births
Reproduced == hist.reproduced
RECURSIVE SumActual(_)
SumActual(calls_made) ==
    IF calls_made = <<>> THEN 0
    ELSE Head(calls_made).actual + SumActual(Tail(calls_made))
\* every reproduce call so far was on the alive individual, with
\* actual_births = 0.3
Steady ==
    \A k \in DOMAIN Reproduced :
        Reproduced[k].alive /\ 10 * Reproduced[k].actual = 3 * One

\* C12: an alive individual whose actual_births is 0.3 on every reproduce
\* call, its remainder starting at 0, creates nothing on calls 1, 2 and 3
\* and exactly one offspring on call 4; after any number of reproduce calls,
\* the offspring created plus the remainder equal the sum of actual_births
\* over the calls.
C12_FractionCarries ==
    pc = "unit" =>
        /\ Steady =>
              \A k \in DOMAIN Reproduced :
                  /\ k \in 1 .. 3 => Reproduced[k].created = 0
                  /\ k = 4 => Reproduced[k].created = 1
        /\ n_born * One + After.offspring_remainder = SumActual(Reproduced)
C12_Witness ==
    /\ pc = "unit" /\ Steady /\ Len(Reproduced) = 4
    /\ n_born = 1 /\ Len(population) = 2
    /\ 10 * After.offspring_remainder = 2 * One

\* C13: with lx = [1.0, 1.0] and every bx entry zero, whatever the seeding
\* and the draws, the recorded population strictly decreases over steps 0, 1
\* and 2, and is 0 at every step from step 2 on.
C13_DeclinesToZero ==
    (lx = DeclineLx /\ \A a \in DOMAIN bx : bx[a] = 0) =>
        \A t \in DOMAIN pop_sizes :
            /\ t \in {2, 3} => pop_sizes[t] < pop_sizes[t - 1]
            /\ t >= 3 => pop_sizes[t] = 0
C13_Witness ==
    /\ pc = "Completed" /\ Len(pop_sizes) = MaxSteps + 2
    /\ lx = DeclineLx /\ bx = <<0, 0>>
    /\ pop_sizes[1] > pop_sizes[2] /\ pop_sizes[2] > 0
    /\ \A t \in 3 .. Len(pop_sizes) : pop_sizes[t] = 0

\* C14: an individual of age 0 is alive right after its survival call,
\* whatever the draw, the patch temperature and lx are.
C14_AgeZeroSurvives ==
    (hist.last = "survival" /\ Before.age = 0) =>
        pc = "unit" /\ IsAlive(After)
C14_Witness ==
    /\ Did("survival") /\ Before.age = 0 /\ IsAlive(After)
    /\ lx = <<>> /\ Temp(Place(Before)) > HeatTemp

\* C15: an individual of age >= len(lx), age > 0, is not alive after its
\* survival call, whatever the draw and the patch temperature are; lx is
\* not read for it (the call cannot raise).
C15_BeyondTableDies ==
    /\ (hist.last = "survival" /\ Before.age >= Len(lx) /\ Before.age > 0) =>
          pc = "unit" /\ ~IsAlive(After)
    /\ pc = "ZeroDivisionError" =>
          Before.age \in 1 .. Len(lx) - 1 /\ lx[Before.age] = 0
C15_Witness ==
    /\ Did("survival") /\ Before.age = 2 /\ lx = <<10, 5>>
    /\ IsAlive(Before) /\ ~IsAlive(After)
    /\ Temp(Place(Before)) = Deg(30)

\* C16: age_up adds exactly 1 to the age, and marks the individual dead
\* exactly when the new age is above 15 (15 before the call gives 16 and
\* dead, whatever lx is); at a new age of 15 or less the state stays as it
\* was.
C16_AgeUp ==
    Did("age_up") =>
        /\ After.age = Before.age + 1
        /\ After.age > 15 => ~IsAlive(After)
        /\ After.age <= 15 => After.state = Before.state
        /\ Fields(After) = Fields([Before EXCEPT !.age = After.age,
                                                 !.state = After.state])
C16_Witness ==
    /\ Did("age_up") /\ Before.age = 15 /\ IsAlive(Before)
    /\ After.age = 16 /\ ~IsAlive(After) /\ Len(lx) = 4

\* C17: the registry is reset at the start of each driver call: from the
\* seeding on, every individual in the registry (so every individual the
\* rules act on, and every individual counted at a census) was given its id
\* by the current call, seeded or born; none is left of an earlier call.
C17_RegistryPerRun ==
    /\ pc = "seed" => population = <<>>
    /\ pc \notin {"call", "reset"} =>
          \A i \in Registry : population[i].id >= hist.first_id
    /\ pc = "census" => Len(population) <= n_seeded + n_born
C17_Witness ==
    /\ hist.run = 2 /\ pc = "census" /\ population # <<>>
    /\ \E id \in 1 .. hist.first_id - 1 : id \notin culled

InBounds(liz) ==
    /\ 0 <= liz.row /\ liz.row < rows
    /\ 0 <= liz.col /\ liz.col < cols
\* the Lizards a reproduce call of `parent` appended to the registry: each
\* has age 0 and remainder 0 and is where the parent is
NewbornsWith(parent) ==
    \A i \in Len(population) + 1 .. Len(population') :
        /\ population'[i].age = 0
        /\ population'[i].offspring_remainder = 0
        /\ IsAlive(population'[i])
        /\ Place(population'[i]) = Place(parent)

\* C18: with rows >= 1 and cols >= 1, every individual in the registry
\* (seeded, moved or newborn) is on the grid in every reachable state; a
\* newborn is created with age 0 and remainder 0 on the patch its parent is
\* on after the parent's move of the step.
C18_OnTheGrid ==
    /\ [](rows >= 1 /\ cols >= 1 =>
             \A i \in Registry : InBounds(population[i]))
    /\ [][Reproduce =>
             /\ population[idx].ops = <<"move">>
             /\ Place(population'[idx]) = Place(population[idx])
             /\ NewbornsWith(population[idx])]_vars
    /\ [][CallReproduce =>
             /\ Place(After') = Place(After)
             /\ NewbornsWith(After)]_vars
C18_Witness ==
    /\ Did("reproduce") /\ Len(population) = 2
    /\ Place(After) = <<1, 0>> /\ Place(population[2]) = <<1, 0>>
    /\ population[2].age = 0 /\ population[2].born >= 1

\* the last reproduce call
LastReproduce == Reproduced[Len(Reproduced)]

\* C19: the remainder of every individual is in [0, 1): it is 0 at creation,
\* and a reproduce call adds the fraction of actual_births to it and, when
\* that makes 1 or more, takes exactly 1 off and creates exactly one Lizard
\* more than the whole part of actual_births.
C19_RemainderBelowOne ==
    /\ \A i \in Registry :
          /\ 0 <= population[i].offspring_remainder
          /\ population[i].offspring_remainder < One
    /\ (Did("reproduce") /\ IsAlive(Before)) =>
          LET actual == LastReproduce.actual
              acc == Before.offspring_remainder + (actual % One)
          IN  IF acc >= One
              THEN /\ After.offspring_remainder = acc - One
                   /\ LastReproduce.created = (actual \div One) + 1
              ELSE /\ After.offspring_remainder = acc
                   /\ LastReproduce.created = actual \div One
C19_Witness ==
    /\ Did("reproduce") /\ IsAlive(Before)
    /\ Before.offspring_remainder > 0
    /\ Before.offspring_remainder + (LastReproduce.actual % One) >= One
    /\ LastReproduce.created = (LastReproduce.actual \div One) + 1
    /\ After.offspring_remainder < Before.offspring_remainder
    /\ habitat.grid[Place(Before)].moisture = 1200

Min(a, b) == IF a <= b THEN a ELSE b
\* the registry is as the cull of the last step left it
AfterCull == pc = "census" \/ (step > 0 /\ pc \in {"update", "Completed"})

\* C20: after the cull of every step, every individual in the registry has
\* age <= min(15, len(lx)): it was below len(lx) at its survival call and is
\* at most 15 after its age_up.
C20_AgeBound ==
    AfterCull =>
        \A i \in Registry :
            /\ population[i].age <= Min(15, Len(lx))
            /\ population[i].age - 1 < Len(lx)
C20_Witness ==
    /\ pc = "census" /\ Len(lx) = MaxAge + 2 /\ step = 1
    /\ \E i \in Registry : population[i].age = 15
    /\ Cardinality(culled) = 3

====
